---- MODULE Spec2Model ----
(***************************************************************************)
(* Request-to-command translation layer of the TaskWarrior MCP server      *)
(* (src/index.ts).  Text is modelled as a sequence of one-character        *)
(* strings, so that quoting, joining and pattern matching are computed     *)
(* character by character, the way the code computes them.                 *)
(***************************************************************************)
EXTENDS Integers, Sequences, FiniteSets, TLC

-----------------------------------------------------------------------------
(* Bounds of the explored inputs *)

\* longest generated free text (description, annotation, text)
MaxTextLen == 3

\* ordinal day inputs 0th .. <MaxOrdinal>th are generated
MaxOrdinal == 32

\* number of requests followed through the server
MaxRequests == 2

\* number of requests the transport reads in the event-loop specification
MaxArrivals == 3

-----------------------------------------------------------------------------
(* Characters and JavaScript string primitives *)

Digit == {"0","1","2","3","4","5","6","7","8","9"}

DigitSeq == <<"0","1","2","3","4","5","6","7","8","9">>

LowerSeq == <<"a","b","c","d","e","f","g","h","i","j","k","l","m",
              "n","o","p","q","r","s","t","u","v","w","x","y","z">>

UpperSeq == <<"A","B","C","D","E","F","G","H","I","J","K","L","M",
              "N","O","P","Q","R","S","T","U","V","W","X","Y","Z">>

Lower == {LowerSeq[i] : i \in 1..26}

Upper == {UpperSeq[i] : i \in 1..26}

\* String.prototype.toLowerCase on one ASCII character (the /i flag)
toLowerCase(c) ==
  IF c \in Upper THEN LowerSeq[CHOOSE i \in 1..26 : UpperSeq[i] = c] ELSE c

\* String.prototype.toUpperCase on one ASCII character
toUpperCase(c) ==
  IF c \in Lower THEN UpperSeq[CHOOSE i \in 1..26 : LowerSeq[i] = c] ELSE c

LowerStr(s) == [i \in 1..Len(s) |-> toLowerCase(s[i])]

\* s.slice(from) with a 1-based start
Slice(s, from) == SubSeq(s, from, Len(s))

AllIn(s, class) == \A i \in 1..Len(s) : s[i] \in class

RECURSIVE join(_, _)
\* Array.prototype.join
join(parts, sep) ==
  IF Len(parts) = 0 THEN <<>>
  ELSE IF Len(parts) = 1 THEN parts[1]
  ELSE parts[1] \o sep \o join(Tail(parts), sep)

\* String.prototype.trim on the whitespace the engine prints
Whitespace == {" ", "\n", "\t"}

RECURSIVE trimStart(_)
trimStart(s) ==
  IF s # <<>> /\ Head(s) \in Whitespace THEN trimStart(Tail(s)) ELSE s

RECURSIVE trimEnd(_)
trimEnd(s) ==
  IF s # <<>> /\ s[Len(s)] \in Whitespace
  THEN trimEnd(SubSeq(s, 1, Len(s) - 1)) ELSE s

trim(s) == trimEnd(trimStart(s))

-----------------------------------------------------------------------------
(* escapeShellArg, index.ts:21-23 *)

\* a replacement that backslash-escapes the quote inside the quoted span
QuoteReplacementBackslashOnly == <<"\\","'">>

\* the replacement text "'\\''" of the replace call
QuoteReplacement == <<"'","\\","'","'">>

RECURSIVE replaceQuotes(_)
\* arg.replace(/'/g, "'\\''"): every single quote is replaced
replaceQuotes(s) ==
  IF s = <<>> THEN <<>>
  ELSE (IF Head(s) = "'" THEN QuoteReplacement ELSE <<Head(s)>>)
       \o replaceQuotes(Tail(s))

RECURSIVE replaceFirstQuote(_)
\* the same replace without the g flag: only the first quote is replaced
replaceFirstQuote(s) ==
  IF s = <<>> THEN <<>>
  ELSE IF Head(s) = "'" THEN QuoteReplacement \o Tail(s)
  ELSE <<Head(s)>> \o replaceFirstQuote(Tail(s))

escapeShellArgFirstOnly(arg) == <<"'">> \o replaceFirstQuote(arg) \o <<"'">>

escapeShellArg(arg) == <<"'">> \o replaceQuotes(arg) \o <<"'">>

-----------------------------------------------------------------------------
(* parseFlexibleDate, index.ts:27-56 *)

IsDigits(s, from, to) == \A i \in from..to : s[i] \in Digit

\* (Z|[+-]\d{2}:\d{2})? up to the end of the string
zoneTail(z) ==
  \/ z = <<>>
  \/ z = <<"Z">>
  \/ /\ Len(z) = 6
     /\ z[1] \in {"+", "-"}
     /\ IsDigits(z, 2, 3) /\ z[4] = ":" /\ IsDigits(z, 5, 6)

\* (\.\d{3})?(Z|[+-]\d{2}:\d{2})? up to the end of the string
fractionTail(r) ==
  \/ zoneTail(r)
  \/ /\ Len(r) >= 4
     /\ r[1] = "." /\ IsDigits(r, 2, 4)
     /\ zoneTail(Slice(r, 5))

\* /^\d{4}-\d{2}-\d{2}(T\d{2}:\d{2}:\d{2}(\.\d{3})?(Z|[+-]\d{2}:\d{2})?)?$/
isoRegex(s) ==
  /\ Len(s) >= 10
  /\ IsDigits(s, 1, 4) /\ s[5] = "-" /\ IsDigits(s, 6, 7)
  /\ s[8] = "-" /\ IsDigits(s, 9, 10)
  /\ \/ Len(s) = 10
     \/ /\ Len(s) >= 19
        /\ s[11] = "T"
        /\ IsDigits(s, 12, 13) /\ s[14] = ":" /\ IsDigits(s, 15, 16)
        /\ s[17] = ":" /\ IsDigits(s, 18, 19)
        /\ fractionTail(Slice(s, 20))

\* /^[+-]\d+[dwmqy]$/
relativeRegex(s) ==
  /\ Len(s) >= 3
  /\ s[1] \in {"+", "-"}
  /\ IsDigits(s, 2, Len(s) - 1)
  /\ s[Len(s)] \in {"d", "w", "m", "q", "y"}

SpecialDateNames ==
  {<<"e","o","m">>, <<"e","o","q">>, <<"e","o","y">>, <<"s","o","m">>, <<"s","o","q">>, <<"s","o","y">>,
   <<"t","o","d","a","y">>, <<"t","o","m","o","r","r","o","w">>, <<"y","e","s","t","e","r","d","a","y">>, <<"n","o","w">>}

\* /^(eom|eoq|eoy|som|soq|soy|today|tomorrow|yesterday|now)$/i
specialDates(s) == LowerStr(s) \in SpecialDateNames

DayNameSet ==
  {<<"m","o","n","d","a","y">>, <<"t","u","e","s","d","a","y">>, <<"w","e","d","n","e","s","d","a","y">>, <<"t","h","u","r","s","d","a","y">>, <<"f","r","i","d","a","y">>,
   <<"s","a","t","u","r","d","a","y">>, <<"s","u","n","d","a","y">>}

\* /^(monday|...|sunday)$/i
dayNames(s) == LowerStr(s) \in DayNameSet

MonthNameSet ==
  {<<"j","a","n","u","a","r","y">>, <<"f","e","b","r","u","a","r","y">>, <<"m","a","r","c","h">>, <<"a","p","r","i","l">>, <<"m","a","y">>, <<"j","u","n","e">>, <<"j","u","l","y">>,
   <<"a","u","g","u","s","t">>, <<"s","e","p","t","e","m","b","e","r">>, <<"o","c","t","o","b","e","r">>, <<"n","o","v","e","m","b","e","r">>, <<"d","e","c","e","m","b","e","r">>}

\* /^(january|...|december)$/i
monthNames(s) == LowerStr(s) \in MonthNameSet

OrdinalSuffixes == {<<"s","t">>, <<"n","d">>, <<"r","d">>, <<"t","h">>}

\* /^\d{1,2}(st|nd|rd|th)$/i
ordinalRegex(s) ==
  /\ Len(s) \in {3, 4}
  /\ IsDigits(s, 1, Len(s) - 2)
  /\ LowerStr(Slice(s, Len(s) - 1)) \in OrdinalSuffixes

\* TRUE when parseFlexibleDate returns dateStr, FALSE when it throws
parseFlexibleDate(dateStr) ==
  \/ isoRegex(dateStr)
  \/ relativeRegex(dateStr)
  \/ specialDates(dateStr)
  \/ dayNames(dateStr)
  \/ monthNames(dateStr)
  \/ ordinalRegex(dateStr)

-----------------------------------------------------------------------------
(* Requests: arguments are a function from the supplied field names to     *)
(* their values; a field that is absent is not in the domain.  Values are  *)
(* JSON values of the field's declared type (text, list of text, boolean). *)

Has(data, f) == f \in DOMAIN data

\* JavaScript truthiness of data.f for a text field: absent and "" are falsy
Truthy(data, f) == Has(data, f) /\ data[f] # <<>>

\* JavaScript truthiness of data.f for a list field: every array is truthy
TruthyList(data, f) == Has(data, f)

\* JavaScript truthiness of data.f for a boolean field
TruthyFlag(data, f) == Has(data, f) /\ data[f] = TRUE

Restrict(data, names) == [f \in (DOMAIN data) \cap names |-> data[f]]

-----------------------------------------------------------------------------
(* Zod schemas, index.ts:132-259 *)

PriorityEnum == {<<"H">>, <<"M">>, <<"L">>}

StatusEnum == {<<"p","e","n","d","i","n","g">>, <<"c","o","m","p","l","e","t","e","d">>, <<"d","e","l","e","t","e","d">>, <<"w","a","i","t","i","n","g">>, <<"r","e","c","u","r","r","i","n","g">>}

BuiltinReportEnum ==
  {<<"l","i","s","t">>, <<"a","l","l">>, <<"a","c","t","i","v","e">>, <<"c","o","m","p","l","e","t","e","d">>, <<"b","l","o","c","k","e","d">>, <<"o","v","e","r","d","u","e">>,
   <<"r","e","a","d","y">>, <<"r","e","c","u","r","r","i","n","g">>}

VisualizationReportEnum ==
  {<<"b","u","r","n","d","o","w","n">>, <<"c","a","l","e","n","d","a","r">>, <<"h","i","s","t","o","r","y">>, <<"s","u","m","m","a","r","y">>, <<"t","i","m","e","s","h","e","e","t">>}

ClearFieldsEnum ==
  {<<"d","u","e">>, <<"s","t","a","r","t">>, <<"w","a","i","t">>, <<"u","n","t","i","l">>, <<"s","c","h","e","d","u","l","e","d">>, <<"p","r","i","o","r","i","t","y">>,
   <<"p","r","o","j","e","c","t">>, <<"d","e","p","e","n","d","s">>}

\* /^[a-zA-Z0-9._-]+$/
projectRegex(s) ==
  Len(s) >= 1 /\ AllIn(s, Lower \cup Upper \cup Digit \cup {".", "_", "-"})

\* a tag pattern that lets upper-case letters through: /^[@A-Za-z0-9_-]+$/
tagRegexMixedCase(s) ==
  Len(s) >= 1 /\ AllIn(s, Lower \cup Upper \cup Digit \cup {"@", "_", "-"})

\* /^[@a-z0-9_-]+$/
tagRegex(s) ==
  Len(s) >= 1 /\ AllIn(s, Lower \cup Digit \cup {"@", "_", "-"})

\* one zod field validator applied to a value of the field's JSON type
Valid(kind, v) ==
  CASE kind = "string"   -> TRUE
    [] kind = "min1"     -> Len(v) >= 1
    [] kind = "project"  -> projectRegex(v)
    [] kind = "tags"     -> \A i \in 1..Len(v) : tagRegex(v[i])
    [] kind = "priority" -> v \in PriorityEnum
    [] kind = "status"   -> v \in StatusEnum
    [] kind = "builtin"  -> v \in BuiltinReportEnum
    [] kind = "visual"   -> v \in VisualizationReportEnum
    [] kind = "depends"  -> \A i \in 1..Len(v) : Len(v[i]) >= 1
    [] kind = "strings"  -> TRUE
    [] kind = "clear"    -> \A i \in 1..Len(v) : v[i] \in ClearFieldsEnum
    [] kind = "boolean"  -> v \in BOOLEAN

Req(name, kind) == [name |-> name, kind |-> kind, required |-> TRUE]

Opt(name, kind) == [name |-> name, kind |-> kind, required |-> FALSE]

listPendingTasksRequest == {Opt("project", "project"), Opt("tags", "tags")}

getTaskRequest == {Req("identifier", "string")}

markTaskDoneRequest == {Req("identifier", "string")}

addTaskRequest ==
  {Req("description", "string"), Opt("due", "string"),
   Opt("priority", "priority"), Opt("project", "project"),
   Opt("tags", "tags")}

ModifyFields ==
  {Opt("description", "min1"), Opt("due", "min1"), Opt("start", "min1"),
   Opt("stop_task", "boolean"), Opt("wait", "min1"), Opt("until", "min1"),
   Opt("scheduled", "min1"), Opt("priority", "priority"),
   Opt("project", "project"), Opt("depends", "depends"),
   Opt("tags", "tags"), Opt("tags_remove", "tags"),
   Opt("clear_fields", "clear")}

modifyTaskRequest == {Req("identifier", "min1")} \cup ModifyFields

modifyTasksBulkRequest == {Req("filter", "min1")} \cup ModifyFields

getTaskInfoRequest == {Req("identifier", "string")}

countTasksRequest ==
  {Opt("status", "status"), Opt("project", "project"), Opt("tags", "tags"),
   Opt("priority", "priority")}

listTasksFilteredRequest ==
  {Opt("status", "status"), Opt("project", "project"), Opt("tags", "tags"),
   Opt("priority", "priority"), Opt("report", "string")}

deleteTaskRequest == {Req("identifier", "string")}

annotateTaskRequest ==
  {Req("identifier", "string"), Req("annotation", "string")}

appendTaskRequest == {Req("identifier", "string"), Req("text", "string")}

prependTaskRequest == {Req("identifier", "string"), Req("text", "string")}

duplicateTaskRequest == {Req("identifier", "string")}

undoLastRequest == {}

builtinReportRequest ==
  {Req("report", "builtin"), Opt("project", "project"), Opt("tags", "tags"),
   Opt("priority", "priority")}

visualizationReportRequest ==
  {Req("report", "visual"), Opt("project", "project"), Opt("tags", "tags")}

customReportRequest ==
  {Req("report", "string"), Opt("columns", "strings"),
   Opt("filter", "string")}

\* the fields of args that break the schema (the issues of the ZodError)
issues(schema, args) ==
  {f.name : f \in {g \in schema :
      \/ g.required /\ ~Has(args, g.name)
      \/ Has(args, g.name) /\ ~Valid(g.kind, args[g.name])}}

\* the SafeParseReturnType for the issues found and the stripped data
ParseResult(errors, data) ==
  [success |-> errors = {}, error |-> errors, data |-> data]

\* schema.safeParse(args): unknown keys are stripped from the parsed data
safeParse(schema, args) ==
  ParseResult(issues(schema, args), Restrict(args, {f.name : f \in schema}))

-----------------------------------------------------------------------------
(* Errors and the outcome of the code that runs before execSync *)

\* a message is a sequence of parts: literal template text, request text,
\* or the rendering of a ZodError
Lit(text) == [lit |-> text]

Chars(s) == [chars |-> s]

Zod(fields) == [zod |-> fields]

ZodDetails(fields) == [details |-> fields]

\* throw new Error(`Invalid arguments for <tool>: ${parsed.error}`)
InvalidArguments(tool, parsed) ==
  <<Lit("Invalid arguments for "), Lit(tool), Lit(": "), Zod(parsed.error)>>

\* the Error thrown by parseFlexibleDate, index.ts:55
InvalidDateFormat(dateStr) ==
  <<Lit("Invalid date format: \""), Chars(dateStr),
    Lit("\". Supported formats: ISO timestamps (2024-01-15T10:30:00Z), relative dates (+7d, -2w), special dates (today, tomorrow, eom), day names (monday), or ordinal dates (15th)")>>

\* throw new Error(`Unknown tool: ${name}`)
UnknownTool(name) == <<Lit("Unknown tool: "), Lit(name)>>

\* maxBuffer: 1024 * 1024 * 10
MaxBuffer == 10485760

DefaultOptions == [maxBuffer |-> MaxBuffer]

BashOptions == [maxBuffer |-> MaxBuffer, shell |-> "/bin/bash"]

\* the case threw before reaching execSync
Throw(schemas, message) ==
  [threw |-> TRUE, message |-> message, parsed |-> schemas,
   command |-> <<>>, options |-> DefaultOptions]

\* the case reached execSync(command, options)
Exec(schemas, command, options) ==
  [threw |-> FALSE, message |-> <<>>, parsed |-> schemas,
   command |-> command, options |-> options]

-----------------------------------------------------------------------------
(* buildTaskModifyArgs, index.ts:59-114 *)

DateFields == <<"due", "start", "wait", "until", "scheduled">>

Prefixed(prefix, list) == [i \in 1..Len(list) |-> prefix \o list[i]]

\* the fields pushed without the colon that empties them
SuffixedBare(list, suffix) == list

Suffixed(list, suffix) == [i \in 1..Len(list) |-> list[i] \o suffix]

\* the date fields of data that parseFlexibleDate is called on, in call order
CheckedDates(data) ==
  SelectSeq(DateFields, LAMBDA f : Truthy(data, f))

\* the first date field whose check throws, 0 when none does
FirstBadDate(data) ==
  LET checked == CheckedDates(data)
      bad == {i \in 1..Len(checked) : ~parseFlexibleDate(data[checked[i]])}
  IN IF bad = {} THEN 0 ELSE CHOOSE i \in bad : \A j \in bad : i <= j

\* a builder that pushes the tags to remove before the tags to add
modifyTokensRemovalsFirst(data) ==
     (IF Truthy(data, "description")
      THEN <<<<"d","e","s","c","r","i","p","t","i","o","n",":">> \o escapeShellArg(data.description)>> ELSE <<>>)
  \o (IF Truthy(data, "due") THEN <<<<"d","u","e",":">> \o data.due>> ELSE <<>>)
  \o (IF Truthy(data, "priority")
      THEN <<<<"p","r","i","o","r","i","t","y",":">> \o data.priority>> ELSE <<>>)
  \o (IF Truthy(data, "start") THEN <<<<"s","t","a","r","t",":">> \o data.start>> ELSE <<>>)
  \o (IF TruthyFlag(data, "stop_task") THEN <<<<"s","t","a","r","t",":">>>> ELSE <<>>)
  \o (IF Truthy(data, "wait") THEN <<<<"w","a","i","t",":">> \o data.wait>> ELSE <<>>)
  \o (IF Truthy(data, "until") THEN <<<<"u","n","t","i","l",":">> \o data.until>> ELSE <<>>)
  \o (IF Truthy(data, "scheduled")
      THEN <<<<"s","c","h","e","d","u","l","e","d",":">> \o data.scheduled>> ELSE <<>>)
  \o (IF Truthy(data, "project")
      THEN <<<<"p","r","o","j","e","c","t",":">> \o data.project>> ELSE <<>>)
  \o (IF TruthyList(data, "depends")
      THEN <<<<"d","e","p","e","n","d","s",":">> \o join(data.depends, <<",">>)>> ELSE <<>>)
  \o (IF TruthyList(data, "tags_remove")
      THEN Prefixed(<<"-">>, data.tags_remove) ELSE <<>>)
  \o (IF TruthyList(data, "tags") THEN Prefixed(<<"+">>, data.tags) ELSE <<>>)
  \o (IF TruthyList(data, "clear_fields")
      THEN Suffixed(data.clear_fields, <<":">>) ELSE <<>>)

\* the tokens pushed onto task_args, in the order of the if statements
modifyTokens(data) ==
     (IF Truthy(data, "description")
      THEN <<<<"d","e","s","c","r","i","p","t","i","o","n",":">> \o escapeShellArg(data.description)>> ELSE <<>>)
  \o (IF Truthy(data, "due") THEN <<<<"d","u","e",":">> \o data.due>> ELSE <<>>)
  \o (IF Truthy(data, "priority")
      THEN <<<<"p","r","i","o","r","i","t","y",":">> \o data.priority>> ELSE <<>>)
  \o (IF Truthy(data, "start") THEN <<<<"s","t","a","r","t",":">> \o data.start>> ELSE <<>>)
  \o (IF TruthyFlag(data, "stop_task") THEN <<<<"s","t","a","r","t",":">>>> ELSE <<>>)
  \o (IF Truthy(data, "wait") THEN <<<<"w","a","i","t",":">> \o data.wait>> ELSE <<>>)
  \o (IF Truthy(data, "until") THEN <<<<"u","n","t","i","l",":">> \o data.until>> ELSE <<>>)
  \o (IF Truthy(data, "scheduled")
      THEN <<<<"s","c","h","e","d","u","l","e","d",":">> \o data.scheduled>> ELSE <<>>)
  \o (IF Truthy(data, "project")
      THEN <<<<"p","r","o","j","e","c","t",":">> \o data.project>> ELSE <<>>)
  \o (IF TruthyList(data, "depends")
      THEN <<<<"d","e","p","e","n","d","s",":">> \o join(data.depends, <<",">>)>> ELSE <<>>)
  \o (IF TruthyList(data, "tags") THEN Prefixed(<<"+">>, data.tags) ELSE <<>>)
  \o (IF TruthyList(data, "tags_remove")
      THEN Prefixed(<<"-">>, data.tags_remove) ELSE <<>>)
  \o (IF TruthyList(data, "clear_fields")
      THEN Suffixed(data.clear_fields, <<":">>) ELSE <<>>)

\* the array the latest call of buildTaskModifyArgs returned, kept while
\* nothing replaces it; recorded by the event-loop specification
VARIABLE last_task_args

\* one array at module level, pushed onto by every call
InitialTaskArgsShared == last_task_args

\* let task_args: string[] = []: a new empty array in every call
InitialTaskArgs == <<>>

\* task_args, or the Error of the bad-th checked date when bad is not 0
BuildResult(data, checked, bad) ==
  IF bad # 0
  THEN [threw |-> TRUE, message |-> InvalidDateFormat(data[checked[bad]]),
        task_args |-> <<>>]
  ELSE [threw |-> FALSE, message |-> <<>>, task_args |-> InitialTaskArgs \o modifyTokens(data)]

\* either the Error of the first failing parseFlexibleDate or task_args
buildTaskModifyArgs(data) ==
  BuildResult(data, CheckedDates(data), FirstBadDate(data))

-----------------------------------------------------------------------------
(* The cases of the CallToolRequestSchema handler, index.ts:400-723: each  *)
(* gives what the case does up to its execSync call                        *)

TagTokens(data) ==
  IF TruthyList(data, "tags") THEN Prefixed(<<"+">>, data.tags) ELSE <<>>

ProjectToken(data) ==
  IF Truthy(data, "project") THEN <<<<"p","r","o","j","e","c","t",":">> \o data.project>> ELSE <<>>

PriorityToken(data) ==
  IF Truthy(data, "priority") THEN <<<<"p","r","i","o","r","i","t","y",":">> \o data.priority>> ELSE <<>>

StatusToken(data) ==
  IF Truthy(data, "status") THEN <<<<"s","t","a","t","u","s",":">> \o data.status>> ELSE <<>>

case_get_next_tasks(parsed) ==
  LET task_args == TagTokens(parsed.data) \o ProjectToken(parsed.data)
  IN IF ~parsed.success
     THEN Throw({"listPendingTasksRequest"},
                InvalidArguments("get_next_tasks", parsed))
     ELSE Exec({"listPendingTasksRequest"},
               <<"t","a","s","k"," ","l","i","m","i","t",":"," ">> \o join(task_args, <<" ">>) \o <<" ","n","e","x","t">>,
               DefaultOptions)

case_mark_task_done(parsed) ==
  IF ~parsed.success
     THEN Throw({"markTaskDoneRequest"},
                InvalidArguments("mark_task_done", parsed))
     ELSE Exec({"markTaskDoneRequest"},
               <<"t","a","s","k"," ">> \o parsed.data.identifier \o <<" ","d","o","n","e">>,
               DefaultOptions)

\* add_task with the date check of index.ts:444 left out
case_add_task_unchecked(parsed) ==
  LET data == parsed.data
      task_args ==
           <<<<"a","d","d">>, escapeShellArg(data.description)>>
        \o (IF Truthy(data, "due") THEN <<<<"d","u","e",":">> \o data.due>> ELSE <<>>)
        \o PriorityToken(data)
        \o (IF Truthy(data, "project")
            THEN <<<<"p","r","o","j","e","c","t",":">> \o escapeShellArg(data.project)>> ELSE <<>>)
        \o (IF TruthyList(data, "tags")
            THEN Prefixed(<<"+">>, [i \in 1..Len(data.tags) |->
                                    escapeShellArg(data.tags[i])])
            ELSE <<>>)
  IN IF ~parsed.success
     THEN Throw({"addTaskRequest"}, InvalidArguments("add_task", parsed))
     ELSE Exec({"addTaskRequest"}, <<"t","a","s","k"," ">> \o join(task_args, <<" ">>),
               DefaultOptions)

case_add_task(parsed) ==
  LET data == parsed.data
      task_args ==
           <<<<"a","d","d">>, escapeShellArg(data.description)>>
        \o (IF Truthy(data, "due") THEN <<<<"d","u","e",":">> \o data.due>> ELSE <<>>)
        \o PriorityToken(data)
        \o (IF Truthy(data, "project")
            THEN <<<<"p","r","o","j","e","c","t",":">> \o escapeShellArg(data.project)>> ELSE <<>>)
        \o (IF TruthyList(data, "tags")
            THEN Prefixed(<<"+">>, [i \in 1..Len(data.tags) |->
                                    escapeShellArg(data.tags[i])])
            ELSE <<>>)
  IN IF ~parsed.success
     THEN Throw({"addTaskRequest"}, InvalidArguments("add_task", parsed))
     ELSE IF Truthy(data, "due") /\ ~parseFlexibleDate(data.due)
     THEN Throw({"addTaskRequest"}, InvalidDateFormat(data.due))
     ELSE Exec({"addTaskRequest"}, <<"t","a","s","k"," ">> \o join(task_args, <<" ">>),
               DefaultOptions)

\* errorDetails of index.ts:468: `${e.path.join('.')}: ${e.message}` per issue
InvalidArgumentsDetailed(tool, parsed) ==
  <<Lit("Invalid arguments for "), Lit(tool), Lit(": "),
    ZodDetails(parsed.error)>>

case_modify_task(parsed) ==
  LET built == buildTaskModifyArgs(parsed.data)
  IN IF ~parsed.success
     THEN Throw({"modifyTaskRequest"},
                InvalidArgumentsDetailed("modify_task", parsed))
     ELSE IF built.threw
     THEN Throw({"modifyTaskRequest"}, built.message)
     ELSE Exec({"modifyTaskRequest"},
               <<"t","a","s","k"," ">> \o escapeShellArg(parsed.data.identifier)
                 \o <<" ","m","o","d","i","f","y"," ">> \o join(built.task_args, <<" ">>),
               DefaultOptions)

\* modify_tasks_bulk run like the other cases: no pipe, default shell
case_modify_tasks_bulk_plain(parsed) ==
  LET built == buildTaskModifyArgs(parsed.data)
  IN IF ~parsed.success
     THEN Throw({"modifyTasksBulkRequest"},
                InvalidArgumentsDetailed("modify_tasks_bulk", parsed))
     ELSE IF built.threw
     THEN Throw({"modifyTasksBulkRequest"}, built.message)
     ELSE Exec({"modifyTasksBulkRequest"},
               <<"t","a","s","k"," ">> \o parsed.data.filter
                 \o <<" ","m","o","d","i","f","y"," ">> \o join(built.task_args, <<" ">>),
               DefaultOptions)

case_modify_tasks_bulk(parsed) ==
  LET built == buildTaskModifyArgs(parsed.data)
  IN IF ~parsed.success
     THEN Throw({"modifyTasksBulkRequest"},
                InvalidArgumentsDetailed("modify_tasks_bulk", parsed))
     ELSE IF built.threw
     THEN Throw({"modifyTasksBulkRequest"}, built.message)
     ELSE Exec({"modifyTasksBulkRequest"},
               <<"y","e","s"," ","|"," ","t","a","s","k"," ">> \o parsed.data.filter
                 \o <<" ","m","o","d","i","f","y"," ">> \o join(built.task_args, <<" ">>),
               BashOptions)

case_get_task_info(parsed) ==
  IF ~parsed.success
     THEN Throw({"getTaskInfoRequest"},
                InvalidArguments("get_task_info", parsed))
     ELSE Exec({"getTaskInfoRequest"},
               <<"t","a","s","k"," ">> \o parsed.data.identifier \o <<" ","i","n","f","o">>,
               DefaultOptions)

case_count_tasks(parsed) ==
  LET data == parsed.data
      task_args == StatusToken(data) \o ProjectToken(data)
                   \o PriorityToken(data) \o TagTokens(data)
  IN IF ~parsed.success
     THEN Throw({"countTasksRequest"}, InvalidArguments("count_tasks", parsed))
     ELSE Exec({"countTasksRequest"},
               <<"t","a","s","k"," ">> \o join(task_args, <<" ">>) \o <<" ","c","o","u","n","t">>,
               DefaultOptions)

case_list_tasks_filtered(parsed) ==
  LET data == parsed.data
      task_args == StatusToken(data) \o ProjectToken(data)
                   \o PriorityToken(data) \o TagTokens(data)
      report == IF Truthy(data, "report") THEN data.report ELSE <<"l","i","s","t">>
  IN IF ~parsed.success
     THEN Throw({"listTasksFilteredRequest"},
                InvalidArguments("list_tasks_filtered", parsed))
     ELSE Exec({"listTasksFilteredRequest"},
               <<"t","a","s","k"," ">> \o join(task_args, <<" ">>) \o <<" ">> \o report,
               DefaultOptions)

case_delete_task(parsed) ==
  IF ~parsed.success
     THEN Throw({"deleteTaskRequest"}, InvalidArguments("delete_task", parsed))
     ELSE Exec({"deleteTaskRequest"},
               <<"t","a","s","k"," ","r","c",".","c","o","n","f","i","r","m","a","t","i","o","n","=","n","o"," ">> \o parsed.data.identifier
                 \o <<" ","d","e","l","e","t","e">>,
               DefaultOptions)

\* annotate_task with the annotation put on the command line as it came
case_annotate_task_raw(parsed) ==
  IF ~parsed.success
     THEN Throw({"annotateTaskRequest"},
                InvalidArguments("annotate_task", parsed))
     ELSE Exec({"annotateTaskRequest"},
               <<"t","a","s","k"," ">> \o parsed.data.identifier \o <<" ","a","n","n","o","t","a","t","e"," ">>
                 \o parsed.data.annotation,
               DefaultOptions)

case_annotate_task(parsed) ==
  IF ~parsed.success
     THEN Throw({"annotateTaskRequest"},
                InvalidArguments("annotate_task", parsed))
     ELSE Exec({"annotateTaskRequest"},
               <<"t","a","s","k"," ">> \o parsed.data.identifier \o <<" ","a","n","n","o","t","a","t","e"," ">>
                 \o escapeShellArg(parsed.data.annotation),
               DefaultOptions)

case_append_task(parsed) ==
  IF ~parsed.success
     THEN Throw({"appendTaskRequest"}, InvalidArguments("append_task", parsed))
     ELSE Exec({"appendTaskRequest"},
               <<"t","a","s","k"," ">> \o parsed.data.identifier \o <<" ","a","p","p","e","n","d"," ">>
                 \o escapeShellArg(parsed.data.text),
               DefaultOptions)

case_prepend_task(parsed) ==
  IF ~parsed.success
     THEN Throw({"prependTaskRequest"},
                InvalidArguments("prepend_task", parsed))
     ELSE Exec({"prependTaskRequest"},
               <<"t","a","s","k"," ">> \o parsed.data.identifier \o <<" ","p","r","e","p","e","n","d"," ">>
                 \o escapeShellArg(parsed.data.text),
               DefaultOptions)

case_duplicate_task(parsed) ==
  IF ~parsed.success
     THEN Throw({"duplicateTaskRequest"},
                InvalidArguments("duplicate_task", parsed))
     ELSE Exec({"duplicateTaskRequest"},
               <<"t","a","s","k"," ">> \o parsed.data.identifier \o <<" ","d","u","p","l","i","c","a","t","e">>,
               DefaultOptions)

case_undo_last(parsed) ==
  IF ~parsed.success
     THEN Throw({"undoLastRequest"}, InvalidArguments("undo_last", parsed))
     ELSE Exec({"undoLastRequest"}, <<"t","a","s","k"," ","r","c",".","c","o","n","f","i","r","m","a","t","i","o","n","=","n","o"," ","u","n","d","o">>,
               DefaultOptions)

case_builtin_report(parsed) ==
  LET data == parsed.data
      task_args == ProjectToken(data) \o PriorityToken(data) \o TagTokens(data)
  IN IF ~parsed.success
     THEN Throw({"builtinReportRequest"},
                InvalidArguments("builtin_report", parsed))
     ELSE Exec({"builtinReportRequest"},
               <<"t","a","s","k"," ">> \o join(task_args, <<" ">>) \o <<" ">> \o data.report,
               DefaultOptions)

case_visualization_report(parsed) ==
  LET data == parsed.data
      task_args == ProjectToken(data) \o TagTokens(data)
  IN IF ~parsed.success
     THEN Throw({"visualizationReportRequest"},
                InvalidArguments("visualization_report", parsed))
     ELSE Exec({"visualizationReportRequest"},
               <<"t","a","s","k"," ">> \o join(task_args, <<" ">>) \o <<" ">> \o data.report,
               DefaultOptions)

\* col.toUpperCase(): every character of the column upper-cased
labelOfUpperAll(col) == [i \in 1..Len(col) |-> toUpperCase(col[i])]

\* col.charAt(0).toUpperCase() + col.slice(1)
labelOf(col) ==
  IF col = <<>> THEN <<>> ELSE <<toUpperCase(col[1])>> \o Tail(col)

case_custom_report(parsed) ==
  LET data == parsed.data
      columns == join(data.columns, <<",">>)
      labels == join([i \in 1..Len(data.columns) |-> labelOf(data.columns[i])],
                     <<",">>)
      cmd_parts ==
           <<<<"t","a","s","k">>>>
        \o (IF Truthy(data, "filter") THEN <<data.filter>> ELSE <<>>)
        \o <<data.report>>
        \o (IF Has(data, "columns") /\ Len(data.columns) > 0
            THEN <<<<"r","c",".","r","e","p","o","r","t",".">> \o data.report \o <<".","c","o","l","u","m","n","s","=">> \o columns,
                   <<"r","c",".","r","e","p","o","r","t",".">> \o data.report \o <<".","l","a","b","e","l","s","=">> \o labels>>
            ELSE <<>>)
  IN IF ~parsed.success
     THEN Throw({"customReportRequest"},
                InvalidArguments("custom_report", parsed))
     ELSE Exec({"customReportRequest"}, join(cmd_parts, <<" ">>), DefaultOptions)

\* the names of the switch, index.ts:400-720
ToolNames ==
  {"get_next_tasks", "mark_task_done", "add_task", "modify_task",
   "modify_tasks_bulk", "get_task_info", "count_tasks",
   "list_tasks_filtered", "delete_task", "annotate_task", "append_task",
   "prepend_task", "duplicate_task", "undo_last", "builtin_report",
   "visualization_report", "custom_report"}

\* a default case that validates the arguments and runs the name as a command
dispatchLenient(name, args) ==
  CASE name = "get_next_tasks"       -> case_get_next_tasks(safeParse(listPendingTasksRequest, args))
    [] name = "mark_task_done"       -> case_mark_task_done(safeParse(markTaskDoneRequest, args))
    [] name = "add_task"             -> case_add_task(safeParse(addTaskRequest, args))
    [] name = "modify_task"          -> case_modify_task(safeParse(modifyTaskRequest, args))
    [] name = "modify_tasks_bulk"    -> case_modify_tasks_bulk(safeParse(modifyTasksBulkRequest, args))
    [] name = "get_task_info"        -> case_get_task_info(safeParse(getTaskInfoRequest, args))
    [] name = "count_tasks"          -> case_count_tasks(safeParse(countTasksRequest, args))
    [] name = "list_tasks_filtered"  -> case_list_tasks_filtered(safeParse(listTasksFilteredRequest, args))
    [] name = "delete_task"          -> case_delete_task(safeParse(deleteTaskRequest, args))
    [] name = "annotate_task"        -> case_annotate_task(safeParse(annotateTaskRequest, args))
    [] name = "append_task"          -> case_append_task(safeParse(appendTaskRequest, args))
    [] name = "prepend_task"         -> case_prepend_task(safeParse(prependTaskRequest, args))
    [] name = "duplicate_task"       -> case_duplicate_task(safeParse(duplicateTaskRequest, args))
    [] name = "undo_last"            -> case_undo_last(safeParse(undoLastRequest, args))
    [] name = "builtin_report"       -> case_builtin_report(safeParse(builtinReportRequest, args))
    [] name = "visualization_report" -> case_visualization_report(safeParse(visualizationReportRequest, args))
    [] name = "custom_report"        -> case_custom_report(safeParse(customReportRequest, args))
    [] OTHER -> Exec({"undoLastRequest"}, <<"t","a","s","k"," ","h","e","l","p">>, DefaultOptions)

\* switch (name): the case taken for the request
dispatch(name, args) ==
  CASE name = "get_next_tasks"       -> case_get_next_tasks(safeParse(listPendingTasksRequest, args))
    [] name = "mark_task_done"       -> case_mark_task_done(safeParse(markTaskDoneRequest, args))
    [] name = "add_task"             -> case_add_task(safeParse(addTaskRequest, args))
    [] name = "modify_task"          -> case_modify_task(safeParse(modifyTaskRequest, args))
    [] name = "modify_tasks_bulk"    -> case_modify_tasks_bulk(safeParse(modifyTasksBulkRequest, args))
    [] name = "get_task_info"        -> case_get_task_info(safeParse(getTaskInfoRequest, args))
    [] name = "count_tasks"          -> case_count_tasks(safeParse(countTasksRequest, args))
    [] name = "list_tasks_filtered"  -> case_list_tasks_filtered(safeParse(listTasksFilteredRequest, args))
    [] name = "delete_task"          -> case_delete_task(safeParse(deleteTaskRequest, args))
    [] name = "annotate_task"        -> case_annotate_task(safeParse(annotateTaskRequest, args))
    [] name = "append_task"          -> case_append_task(safeParse(appendTaskRequest, args))
    [] name = "prepend_task"         -> case_prepend_task(safeParse(prependTaskRequest, args))
    [] name = "duplicate_task"       -> case_duplicate_task(safeParse(duplicateTaskRequest, args))
    [] name = "undo_last"            -> case_undo_last(safeParse(undoLastRequest, args))
    [] name = "builtin_report"       -> case_builtin_report(safeParse(builtinReportRequest, args))
    [] name = "visualization_report" -> case_visualization_report(safeParse(visualizationReportRequest, args))
    [] name = "custom_report"        -> case_custom_report(safeParse(customReportRequest, args))
    [] OTHER -> Throw({}, UnknownTool(name))

-----------------------------------------------------------------------------
(* execSync and the handler as a whole, index.ts:396-731 *)

\* what the spawned engine does: exit status, output, and whether the
\* output outgrew maxBuffer
ProcessOutcomes ==
  {[status |-> 0, stdout |-> <<>>, stderr |-> <<>>, overflow |-> FALSE],
   [status |-> 0, stdout |-> <<"\n","C","r","e","a","t","e","d"," ","t","a","s","k"," ","1",".","\n">>, stderr |-> <<>>,
    overflow |-> FALSE],
   [status |-> 1, stdout |-> <<>>, stderr |-> <<"N","o"," ","m","a","t","c","h","e","s",".">>,
    overflow |-> FALSE],
   [status |-> 0, stdout |-> <<"I","D">>, stderr |-> <<>>, overflow |-> TRUE]}

\* child_process.execSync: returns stdout, or throws on a non-zero exit and
\* on output beyond maxBuffer
execSync(command, options, proc) ==
  IF proc.overflow
  THEN [threw |-> TRUE, message |-> <<Lit("spawnSync ENOBUFS")>>,
        stdout |-> <<>>]
  ELSE IF proc.status # 0
  THEN [threw |-> TRUE,
        message |-> <<Lit("Command failed: "), Chars(command), Lit("\n"),
                      Chars(proc.stderr)>>,
        stdout |-> <<>>]
  ELSE [threw |-> FALSE, message |-> <<>>, stdout |-> proc.stdout]

\* return { content: [{ type: "text", text: content }] }
success(content) ==
  [content |-> <<[type |-> "text", text |-> <<Chars(content)>>]>>]

\* the catch block, index.ts:724-730
catch(errorMessage) ==
  [content |-> <<[type |-> "text", text |-> <<Lit("Error: ")>> \o errorMessage]>>,
   isError |-> TRUE]

\* the process spawned by a case that reached execSync
Spawn(case) == [command |-> case.command, options |-> case.options]

\* the rest of the try block after execSync, or the catch block if it threw
afterExec(case, run) ==
  IF run.threw
  THEN [parsed |-> case.parsed, spawned |-> <<Spawn(case)>>,
        thrown |-> <<run.message>>,
        responses |-> <<catch(run.message)>>, faults |-> <<>>]
  ELSE [parsed |-> case.parsed, spawned |-> <<Spawn(case)>>, thrown |-> <<>>,
        responses |-> <<success(trim(run.stdout))>>, faults |-> <<>>]

\* the same with execSync outside the try block: its Error is not caught
afterExecUncaught(case, run) ==
  IF run.threw
  THEN [parsed |-> case.parsed, spawned |-> <<Spawn(case)>>,
        thrown |-> <<run.message>>,
        responses |-> <<>>, faults |-> <<run.message>>]
  ELSE [parsed |-> case.parsed, spawned |-> <<Spawn(case)>>, thrown |-> <<>>,
        responses |-> <<success(trim(run.stdout))>>, faults |-> <<>>]

\* try { switch ... } catch: the case threw, or went on to execSync
tryCase(case, proc) ==
  IF case.threw
  THEN [parsed |-> case.parsed, spawned |-> <<>>,
        thrown |-> <<case.message>>,
        responses |-> <<catch(case.message)>>, faults |-> <<>>]
  ELSE afterExec(case, execSync(case.command, case.options, proc))

tryCaseUncaught(case, proc) ==
  IF case.threw
  THEN [parsed |-> case.parsed, spawned |-> <<>>,
        thrown |-> <<case.message>>,
        responses |-> <<catch(case.message)>>, faults |-> <<>>]
  ELSE afterExecUncaught(case, execSync(case.command, case.options, proc))

\* a handler whose execSync call is outside the try block
CallToolNoCatchExec(name, args, proc) ==
  tryCaseUncaught(dispatch(name, args), proc)

\* the CallToolRequestSchema handler: the schemas it parsed with, the
\* processes it spawned, the errors thrown inside it, the responses it
\* returned and the errors it let through to the transport
CallTool(name, args, proc) == tryCase(dispatch(name, args), proc)

-----------------------------------------------------------------------------
(* Requests explored *)

RECURSIVE numeral(_)
\* decimal digits of a natural number
numeral(n) ==
  IF n < 10 THEN <<DigitSeq[n + 1]>>
  ELSE numeral(n \div 10) \o <<DigitSeq[(n % 10) + 1]>>

TextAlphabet == {"a", "'", ";"}

Strings(alphabet, n) == UNION {[1..k -> alphabet] : k \in 0..n}

ItsATest == <<"I","t","'","s"," ","a"," ","t","e","s","t">>

\* free text: every text over TextAlphabet up to MaxTextLen, and the
\* example of the specification
Texts == Strings(TextAlphabet, MaxTextLen) \cup {ItsATest}

Identifiers ==
  {<<>>, <<"1">>, <<"4","2">>, <<"1",";","i","d">>, <<"a","1","b","2","c","3","d","4","-","0","0","0","0","-","4","0","0","0","-","8","0","0","0","-","0","0","0","0","0","0","0","0","0","0","0","f">>}

Filters == {<<>>, <<"p","r","o","j","e","c","t",":","W","o","r","k">>, <<"+","u","r","g","e","n","t"," ","o","r"," ","p","r","i","o","r","i","t","y",":","H">>, <<"s","t","a","t","u","s",":","p","e","n","d","i","n","g">>}

OrdinalInputs ==
  {numeral(n) \o suffix : n \in 0..MaxOrdinal, suffix \in OrdinalSuffixes}

DateInputs ==
  OrdinalInputs \cup SpecialDateNames \cup DayNameSet \cup MonthNameSet \cup
  {<<>>, <<"2","0","2","4","-","0","1","-","1","5">>, <<"2","0","2","4","-","0","1","-","1","5","T","1","0",":","3","0",":","0","0">>, <<"2","0","2","4","-","0","1","-","1","5","T","1","0",":","3","0",":","0","0","Z">>,
   <<"2","0","2","4","-","0","1","-","1","5","T","1","0",":","3","0",":","0","0",".","1","2","3">>, <<"2","0","2","4","-","0","1","-","1","5","T","1","0",":","3","0",":","0","0",".","1","2","3","Z">>,
   <<"2","0","2","4","-","0","1","-","1","5","T","1","0",":","3","0",":","0","0","+","0","2",":","0","0">>, <<"2","0","2","4","-","0","1","-","1","5","T","1","0",":","3","0",":","0","0",".","1","2","3","-","0","5",":","0","0">>,
   <<"2","0","2","4","-","0","1","-","1","5","T","1","0",":","3","0">>, <<"2","0","2","4","-","1","-","1","5">>, <<"2","0","2","4","-","0","1","-","1","5","Z">>, <<"2","0","2","4","-","0","1","-","1","5","T","1","0",":","3","0",":","0","0",".","1","2","Z">>,
   <<"2","0","2","4","-","0","1","-","1","5"," ","1","0",":","3","0",":","0","0">>, <<"1","5","/","0","1","/","2","0","2","4">>,
   <<"+","7","d">>, <<"-","2","w">>, <<"+","1","m">>, <<"+","1","0","q">>, <<"-","1","y">>, <<"7","d">>, <<"+","d">>, <<"+","7","h">>, <<"+","7","D">>,
   <<"+","7"," ","d">>, <<"E","O","M">>, <<"T","o","d","a","y">>, <<"N","O","W">>, <<"e","o","d">>, <<"F","r","i","d","a","y">>, <<"M","O","N","D","A","Y">>, <<"m","o","n">>,
   <<"J","a","n","u","a","r","y">>, <<"M","A","Y">>, <<"j","a","n">>, <<"1","S","T">>, <<"1","5","T","h">>, <<"0","0","1","s","t">>, <<"1","0","0","t","h">>, <<"1">>, <<"s","t">>,
   <<"f","i","r","s","t">>, <<"n","e","x","t"," ","w","e","e","k">>, <<"t","o","d","a","y",";","i","d">>, <<"$","(","i","d",")">>, <<"'">>}

Priorities == PriorityEnum \cup {<<>>, <<"h">>, <<"X">>}

Projects == {<<"W","o","r","k">>, <<"h","o","m","e",".","g","a","r","d","e","n","_","2","-","a">>, <<>>, <<"m","y"," ","p","r","o","j","e","c","t">>, <<"a",";","i","d">>}

TagLists ==
  {<<>>, <<<<"u","r","g","e","n","t">>>>, <<<<"@","h","o","m","e">>, <<"n","e","x","t","_","1">>>>, <<<<"U","r","g","e","n","t">>>>, <<<<>>>>,
   <<<<"a"," ","b">>>>, <<<<"o","k">>, <<"b",";","i","d">>>>}

DependsLists == {<<>>, <<<<"1">>>>, <<<<"1">>, <<"2">>>>, <<<<>>>>, <<<<"1",";","i","d">>>>}

ClearLists ==
  {<<>>, <<<<"d","u","e">>, <<"p","r","i","o","r","i","t","y">>>>, <<<<"d","e","p","e","n","d","s">>>>, <<<<"p","r","o","j","e","c","t">>, <<"s","t","a","r","t">>>>,
   <<<<"w","a","i","t">>, <<"u","n","t","i","l">>, <<"s","c","h","e","d","u","l","e","d">>>>, <<<<"d","e","s","c","r","i","p","t","i","o","n">>>>}

Statuses == StatusEnum \cup {<<>>, <<"d","o","n","e">>}

ReportNames ==
  BuiltinReportEnum \cup VisualizationReportEnum \cup
  {<<>>, <<"n","e","x","t">>, <<"m","i","n","i","m","a","l">>, <<"l","i","s","t",";","i","d">>}

ColumnLists ==
  {<<>>, <<<<"i","d">>, <<"p","r","o","j","e","c","t">>>>, <<<<"i","d">>, <<"p","r","o","j","e","c","t">>, <<"p","r","i","o","r","i","t","y">>>>,
   <<<<"d","e","s","c","r","i","p","t","i","o","n",".","c","o","u","n","t">>>>, <<<<>>>>, <<<<"I","d">>, <<"1","x">>>>, <<<<"i","d",";","i","d">>>>}

EmptyArgs == [f \in {} |-> <<>>]

\* every way of leaving fields out of a set of fully filled requests
Partial(full, optional) ==
  {Restrict(r, (DOMAIN r) \ drop) : r \in full, drop \in SUBSET optional}

Filtering ==
  {[project |-> p, tags |-> t, priority |-> <<"H">>, status |-> <<"p","e","n","d","i","n","g">>] :
      p \in Projects, t \in TagLists}
  \cup
  {[project |-> <<"W","o","r","k">>, tags |-> <<<<"u","r","g","e","n","t">>>>, priority |-> q, status |-> s] :
      q \in Priorities, s \in Statuses}

IdentifierArgs == {EmptyArgs} \cup {[identifier |-> i] : i \in Identifiers}

GetNextTasksArgs ==
  {Restrict(r, keep) : r \in Filtering, keep \in SUBSET {"project", "tags"}}

AddTaskArgs ==
  {EmptyArgs, [due |-> <<"t","o","d","a","y">>]}
  \cup {[description |-> d] : d \in Texts}
  \cup {[description |-> d, due |-> w] : d \in {<<"a">>, ItsATest}, w \in DateInputs}
  \cup {[description |-> d, due |-> w, priority |-> q, project |-> p, tags |-> t] :
          d \in {<<>>, <<"a","'">>}, w \in {<<"+","7","d">>, <<"s","o","o","n">>}, q \in Priorities,
          p \in Projects, t \in TagLists}
  \cup {[description |-> ItsATest, project |-> p, tags |-> t] :
          p \in Projects, t \in TagLists}

\* modification fields shared by modify_task and modify_tasks_bulk
Modifications ==
  {EmptyArgs}
  \cup {[description |-> d] : d \in Texts}
  \cup {[description |-> d, due |-> w] : d \in {<<"a">>, ItsATest}, w \in DateInputs}
  \cup {f :> w : f \in {"due", "start", "wait", "until", "scheduled"},
                 w \in DateInputs}
  \cup {[due |-> a, start |-> b, wait |-> c, until |-> d, scheduled |-> e,
         stop_task |-> s] :
          a \in {<<"e","o","m">>, <<"n","e","v","e","r">>}, b \in {<<"n","o","w">>, <<"3","2","n","d">>},
          c \in {<<"+","1","w">>, <<>>}, d \in {<<"2","0","2","5","-","0","1","-","0","1">>, <<"1","/","2">>},
          e \in {<<"m","o","n","d","a","y">>, <<"m","o","o","n","d","a","y">>}, s \in BOOLEAN}
  \cup Partial({[description |-> <<"a","'","a">>, priority |-> q, project |-> p,
                 stop_task |-> s] :
                  q \in Priorities, p \in Projects, s \in BOOLEAN},
               {"description", "stop_task"})
  \cup Partial({[tags |-> t, tags_remove |-> u, clear_fields |-> c] :
                  t \in TagLists, u \in TagLists, c \in ClearLists},
               {"tags", "tags_remove", "clear_fields"})
  \cup {[depends |-> d, clear_fields |-> c] :
          d \in DependsLists, c \in ClearLists}
  \cup {[description |-> <<"a">>, due |-> <<"e","o","m">>, depends |-> <<<<"1">>, <<"2">>>>,
         tags |-> t, tags_remove |-> u] :
          t \in {<<>>, <<<<"u","r","g","e","n","t">>>>, <<<<"@","h","o","m","e">>, <<"n","e","x","t","_","1">>>>},
          u \in {<<>>, <<<<"u","r","g","e","n","t">>>>, <<<<"-","x">>, <<"o","k">>>>}}

ModifyTaskArgs ==
  Modifications
  \cup {("identifier" :> i) @@ m : i \in Identifiers \cup {<<"i","t","'","s">>},
                                   m \in {[description |-> ItsATest],
                                          [due |-> <<"3","1","s","t">>],
                                          [due |-> <<"0","t","h">>]}}
  \cup {("identifier" :> <<"7">>) @@ m : m \in Modifications}

ModifyTasksBulkArgs ==
  Modifications
  \cup {("filter" :> i) @@ m : i \in Filters,
                               m \in {EmptyArgs, [description |-> ItsATest],
                                      [priority |-> <<"M">>], [due |-> <<"3","1","s","t">>],
                                      [due |-> <<"0","t","h">>]}}
  \cup {("filter" :> <<"p","r","o","j","e","c","t",":","W","o","r","k">>) @@ m : m \in Modifications}

CountTasksArgs == {Restrict(r, keep) : r \in Filtering, keep \in SUBSET
                     {"project", "tags", "priority", "status"}}

ListTasksFilteredArgs ==
  CountTasksArgs
  \cup {[report |-> r] : r \in ReportNames}
  \cup {[report |-> r, status |-> <<"p","e","n","d","i","n","g">>, tags |-> <<<<"u","r","g","e","n","t">>>>] :
          r \in ReportNames}

TextArgs(field) ==
  IdentifierArgs
  \cup {field :> x : x \in Texts}
  \cup {("identifier" :> i) @@ (field :> x) : i \in Identifiers, x \in Texts}

ReportArgs ==
  {EmptyArgs}
  \cup {[report |-> r] : r \in ReportNames}
  \cup {("report" :> <<"l","i","s","t">>) @@ Restrict(r, keep) :
          r \in Filtering, keep \in SUBSET {"project", "tags", "priority"}}
  \cup {("report" :> <<"s","u","m","m","a","r","y">>) @@ Restrict(r, keep) :
          r \in Filtering, keep \in SUBSET {"project", "tags"}}

CustomReportArgs ==
  {EmptyArgs}
  \cup Partial({[report |-> r, columns |-> c, filter |-> f] :
                  r \in ReportNames, c \in ColumnLists, f \in Filters},
               {"report", "columns", "filter"})

UnknownNames == {"list_tasks", "get_task", "ADD_TASK", "add_task ", "undo"}

AnyArgs ==
  {EmptyArgs, [identifier |-> <<"1">>], [identifier |-> <<>>],
   [description |-> ItsATest, due |-> <<"t","o","d","a","y">>],
   [description |-> <<"a">>, due |-> <<"9","9","t","h">>], [filter |-> <<>>],
   [report |-> <<"l","i","s","t",";","i","d">>], [tags |-> <<<<"U","r","g","e","n","t">>>>]}

-----------------------------------------------------------------------------
(* The server: the transport hands over one request at a time *)

VARIABLES
  pc,         \* "idle": waiting for a request; "responded": the tool handler
              \* returned; "listed": the listing handler returned
  request,    \* request.params of the request being handled
  parsed,     \* the schemas the handler parsed the arguments with
  spawned,    \* the execSync calls made for the request: command and options
  thrown,     \* the errors thrown while handling the request
  responses,  \* the responses the handler returned for the request
  faults,     \* the errors the handler let through to the transport
  served,     \* requests answered so far
  errorsReturned,  \* how many of the answers came from the catch block
  inbox,      \* event loop: requests read from stdin, handler not yet called
  active,     \* event loop: handler calls that have not returned
  answered    \* event loop: the handler calls that returned, in order

\* the state of the request-by-request specification
toolVars == <<pc, request, parsed, spawned, thrown, responses, faults, served,
              errorsReturned>>

\* the state of the event-loop specification
loopVars == <<inbox, active, answered, last_task_args>>

vars == <<toolVars, loopVars>>

NoRequest == [name |-> "", arguments |-> EmptyArgs]

Init ==
  /\ pc = "idle"
  /\ request = NoRequest
  /\ parsed = {}
  /\ spawned = <<>>
  /\ thrown = <<>>
  /\ responses = <<>>
  /\ faults = <<>>
  /\ served = 0
  /\ errorsReturned = 0
  /\ inbox = <<>>
  /\ active = {}
  /\ answered = <<>>
  /\ last_task_args = <<>>

\* the transport delivers the next request only after the previous response
Accepting == pc = "idle" /\ served < MaxRequests

\* one call of the handler, run to its return
Returned(name, args, h) ==
  /\ parsed' = h.parsed
  /\ spawned' = h.spawned
  /\ thrown' = h.thrown
  /\ responses' = h.responses
  /\ faults' = h.faults
  /\ request' = [name |-> name, arguments |-> args]
  /\ pc' = "responded"
  /\ UNCHANGED <<served, errorsReturned, loopVars>>

Handle(name, args, proc) == Returned(name, args, CallTool(name, args, proc))

get_next_tasks ==
  /\ Accepting
  /\ \E args \in GetNextTasksArgs, proc \in ProcessOutcomes :
       Handle("get_next_tasks", args, proc)

mark_task_done ==
  /\ Accepting
  /\ \E args \in IdentifierArgs, proc \in ProcessOutcomes :
       Handle("mark_task_done", args, proc)

add_task ==
  /\ Accepting
  /\ \E args \in AddTaskArgs, proc \in ProcessOutcomes :
       Handle("add_task", args, proc)

modify_task ==
  /\ Accepting
  /\ \E args \in ModifyTaskArgs, proc \in ProcessOutcomes :
       Handle("modify_task", args, proc)

modify_tasks_bulk ==
  /\ Accepting
  /\ \E args \in ModifyTasksBulkArgs, proc \in ProcessOutcomes :
       Handle("modify_tasks_bulk", args, proc)

get_task_info ==
  /\ Accepting
  /\ \E args \in IdentifierArgs, proc \in ProcessOutcomes :
       Handle("get_task_info", args, proc)

count_tasks ==
  /\ Accepting
  /\ \E args \in CountTasksArgs, proc \in ProcessOutcomes :
       Handle("count_tasks", args, proc)

list_tasks_filtered ==
  /\ Accepting
  /\ \E args \in ListTasksFilteredArgs, proc \in ProcessOutcomes :
       Handle("list_tasks_filtered", args, proc)

delete_task ==
  /\ Accepting
  /\ \E args \in IdentifierArgs, proc \in ProcessOutcomes :
       Handle("delete_task", args, proc)

annotate_task ==
  /\ Accepting
  /\ \E args \in TextArgs("annotation"), proc \in ProcessOutcomes :
       Handle("annotate_task", args, proc)

append_task ==
  /\ Accepting
  /\ \E args \in TextArgs("text"), proc \in ProcessOutcomes :
       Handle("append_task", args, proc)

prepend_task ==
  /\ Accepting
  /\ \E args \in TextArgs("text"), proc \in ProcessOutcomes :
       Handle("prepend_task", args, proc)

duplicate_task ==
  /\ Accepting
  /\ \E args \in IdentifierArgs, proc \in ProcessOutcomes :
       Handle("duplicate_task", args, proc)

undo_last ==
  /\ Accepting
  /\ \E args \in {EmptyArgs, [identifier |-> <<"1">>]}, proc \in ProcessOutcomes :
       Handle("undo_last", args, proc)

builtin_report ==
  /\ Accepting
  /\ \E args \in ReportArgs, proc \in ProcessOutcomes :
       Handle("builtin_report", args, proc)

visualization_report ==
  /\ Accepting
  /\ \E args \in ReportArgs, proc \in ProcessOutcomes :
       Handle("visualization_report", args, proc)

custom_report ==
  /\ Accepting
  /\ \E args \in CustomReportArgs, proc \in ProcessOutcomes :
       Handle("custom_report", args, proc)

\* a name the switch has no case for
unknown_tool ==
  /\ Accepting
  /\ \E name \in UnknownNames, args \in AnyArgs, proc \in ProcessOutcomes :
       Handle(name, args, proc)

\* a ListTools handler that also advertises a tool for the getTaskRequest
\* schema
ListToolsWithGetTask ==
  [tools |-> <<[name |-> "get_next_tasks"], [name |-> "mark_task_done"],
               [name |-> "add_task"], [name |-> "modify_task"],
               [name |-> "modify_tasks_bulk"], [name |-> "get_task_info"],
               [name |-> "count_tasks"], [name |-> "list_tasks_filtered"],
               [name |-> "delete_task"], [name |-> "annotate_task"],
               [name |-> "append_task"], [name |-> "prepend_task"],
               [name |-> "duplicate_task"], [name |-> "undo_last"],
               [name |-> "builtin_report"], [name |-> "visualization_report"],
               [name |-> "custom_report"], [name |-> "get_task"]>>]

\* the ListToolsRequestSchema handler: the tools it returns, by name (each
\* tool also carries a description and the JSON schema of its request)
ListTools ==
  [tools |-> <<[name |-> "get_next_tasks"], [name |-> "mark_task_done"],
               [name |-> "add_task"], [name |-> "modify_task"],
               [name |-> "modify_tasks_bulk"], [name |-> "get_task_info"],
               [name |-> "count_tasks"], [name |-> "list_tasks_filtered"],
               [name |-> "delete_task"], [name |-> "annotate_task"],
               [name |-> "append_task"], [name |-> "prepend_task"],
               [name |-> "duplicate_task"], [name |-> "undo_last"],
               [name |-> "builtin_report"], [name |-> "visualization_report"],
               [name |-> "custom_report"]>>]

\* a tools/list request, answered with the tool listing
list_tools ==
  /\ Accepting
  /\ pc' = "listed"
  /\ responses' = <<ListTools>>
  /\ UNCHANGED <<request, parsed, spawned, thrown, faults, served,
                 errorsReturned, loopVars>>

\* the transport sends the response; the request and everything built for
\* it are dropped
Respond ==
  /\ pc \in {"responded", "listed"}
  /\ pc' = "idle"
  /\ request' = NoRequest
  /\ parsed' = {}
  /\ spawned' = <<>>
  /\ thrown' = <<>>
  /\ responses' = <<>>
  /\ faults' = <<>>
  /\ served' = served + 1
  /\ errorsReturned' =
       errorsReturned + Cardinality({i \in 1..Len(responses) :
                          Has(responses[i], "isError") /\ responses[i].isError})
  /\ UNCHANGED loopVars

Next ==
  \/ get_next_tasks
  \/ mark_task_done
  \/ add_task
  \/ modify_task
  \/ modify_tasks_bulk
  \/ get_task_info
  \/ count_tasks
  \/ list_tasks_filtered
  \/ delete_task
  \/ annotate_task
  \/ append_task
  \/ prepend_task
  \/ duplicate_task
  \/ undo_last
  \/ builtin_report
  \/ visualization_report
  \/ custom_report
  \/ unknown_tool
  \/ list_tools
  \/ Respond

Spec == Init /\ [][Next]_vars


-----------------------------------------------------------------------------
(* The event loop: requests arrive on stdin at any time, handlers run on   *)
(* the one JavaScript thread                                                *)

\* requests the transport reads in this specification
LoopRequests ==
  {[name |-> "modify_task",
    arguments |-> [identifier |-> <<"7">>, priority |-> <<"H">>,
                   tags |-> <<<<"u","r","g","e","n","t">>>>]],
   [name |-> "modify_tasks_bulk",
    arguments |-> [filter |-> <<"p","r","o","j","e","c","t",":","W","o","r","k">>, clear_fields |-> <<<<"d","u","e">>>>]],
   [name |-> "add_task",
    arguments |-> [description |-> <<"a">>, due |-> <<"n","e","v","e","r">>]],
   [name |-> "mark_task_done", arguments |-> [identifier |-> <<"1">>]],
   [name |-> "modify_task", arguments |-> [tags |-> <<<<"U","r","g","e","n","t">>>>]],
   [name |-> "get_task", arguments |-> [identifier |-> <<"1">>]]}

\* a handler that awaits a promisified exec: the event loop runs other
\* callbacks while the process runs
execAwaited == TRUE

\* execSync returns to its caller only when the process has ended: while it
\* runs, the event loop runs nothing else
execSyncYields == FALSE

\* the array buildTaskModifyArgs returned for the parsed request, the array
\* of the call before when it was not called or threw
arrayAfter(name, parse) ==
  IF /\ name \in {"modify_task", "modify_tasks_bulk"}
     /\ parse.success
     /\ ~buildTaskModifyArgs(parse.data).threw
  THEN buildTaskModifyArgs(parse.data).task_args
  ELSE last_task_args

\* what a returned handler call leaves behind: its request, the command
\* lines it spawned and whether its response carries the error marker
Answer(id, req, processes, response) ==
  [id |-> id, request |-> req,
   commands |-> [i \in 1..Len(processes) |-> processes[i].command],
   isError |-> Has(response, "isError") /\ response.isError]

\* the transport reads a request from stdin; the client may write one at any
\* time, also while a process runs
Arrive ==
  /\ Len(inbox) + Cardinality(active) + Len(answered) < MaxArrivals
  /\ \E req \in LoopRequests : inbox' = Append(inbox, req)
  /\ UNCHANGED <<toolVars, active, answered, last_task_args>>

\* the handler called with req ran up to its throw or up to execSync
Started(id, req, case) ==
  IF case.threw
  THEN /\ answered' = Append(answered,
                             Answer(id, req, <<>>, catch(case.message)))
       /\ active' = active
  ELSE /\ active' = active \cup {[id |-> id, request |-> req, case |-> case]}
       /\ answered' = answered

\* the event loop calls the handler for the next request: validation,
\* building and the execSync call run without a break
Start ==
  /\ inbox # <<>>
  /\ execSyncYields \/ active = {}
  /\ inbox' = Tail(inbox)
  /\ last_task_args' =
       arrayAfter(Head(inbox).name,
                  safeParse(IF Head(inbox).name = "modify_task"
                            THEN modifyTaskRequest
                            ELSE modifyTasksBulkRequest,
                            Head(inbox).arguments))
  /\ Started(Cardinality(active) + Len(answered) + 1, Head(inbox),
             dispatch(Head(inbox).name, Head(inbox).arguments))
  /\ UNCHANGED toolVars

\* the process of a handler call ends; the call returns its response
Exit ==
  /\ \E h \in active, proc \in ProcessOutcomes :
       /\ active' = active \ {h}
       /\ answered' =
            Append(answered,
                   Answer(h.id, h.request, <<Spawn(h.case)>>,
                          afterExec(h.case,
                                    execSync(h.case.command, h.case.options,
                                             proc)).responses[1]))
  /\ UNCHANGED <<toolVars, inbox, last_task_args>>

LoopNext ==
  \/ Arrive
  \/ Start
  \/ Exit

Loop == Init /\ [][LoopNext]_vars
-----------------------------------------------------------------------------
(* Vocabulary of the properties *)

Handled == pc = "responded"

Name == request.name

Args == request.arguments

Spawned == spawned # <<>>

\* the command line of the process spawned for the request
Command == spawned[1].command

HasPrefix(s, p) == Len(s) >= Len(p) /\ SubSeq(s, 1, Len(p)) = p

\* s occupies positions from .. from+Len(s)-1 of line
OccursAt(line, from, s) ==
  from >= 1 /\ Len(line) >= from + Len(s) - 1
  /\ SubSeq(line, from, from + Len(s) - 1) = s

\* number of single quotes in s before position i
QuotesBefore(s, i) == Cardinality({j \in 1..(i - 1) : s[j] = "'"})

\* length of the single-quoted form of s
QuotedLen(s) == Len(s) + 3 * QuotesBefore(s, Len(s) + 1) + 2

\* e is a quote, then s with each quote written as the four characters
\* quote backslash quote quote, then a quote: stated position by position
IsQuotedForm(e, s) ==
  /\ Len(e) = QuotedLen(s)
  /\ e[1] = "'"
  /\ e[Len(e)] = "'"
  /\ \A i \in 1..Len(s) :
       LET p == 1 + i + 3 * QuotesBefore(s, i)
       IN IF s[i] = "'"
          THEN e[p] = "'" /\ e[p + 1] = "\\" /\ e[p + 2] = "'" /\ e[p + 3] = "'"
          ELSE e[p] = s[i]

\* the quoted form of s stands at position from of line, as a whole token
QuotedAt(line, from, s) ==
  /\ Len(line) >= from + QuotedLen(s) - 1
  /\ IsQuotedForm(SubSeq(line, from, from + QuotedLen(s) - 1), s)
  /\ \/ Len(line) = from + QuotedLen(s) - 1
     \/ line[from + QuotedLen(s)] = " "

\* first position at or after from whose character is in class, Len(s) + 1
\* when there is none
NextIn(s, from, class) ==
  LET hits == {i \in from..Len(s) : s[i] \in class}
  IN IF hits = {} THEN Len(s) + 1
     ELSE CHOOSE i \in hits : \A j \in hits : i <= j

RECURSIVE shellScan(_, _, _, _, _, _, _)
\* POSIX word splitting with single-quote rules, from position from on:
\* inside a quoted span every character is literal, a backslash outside a
\* span makes the next character literal, adjacent pieces concatenate,
\* unquoted blanks separate words.  bare collects the characters read
\* outside every span and not behind a backslash.
shellScan(s, from, inQuote, word, open, words, bare) ==
  IF inQuote
  THEN LET q == NextIn(s, from, {"'"})
       IN IF q > Len(s)
          THEN [closed |-> FALSE,
                words |-> Append(words, word \o SubSeq(s, from, Len(s))),
                bare |-> bare]
          ELSE shellScan(s, q + 1, FALSE, word \o SubSeq(s, from, q - 1),
                         TRUE, words, bare)
  ELSE LET p == NextIn(s, from, {"'", "\\", " "})
           w == word \o SubSeq(s, from, p - 1)
           o == open \/ p > from
           b == bare \cup {s[i] : i \in from..(p - 1)}
       IN IF p > Len(s)
          THEN [closed |-> TRUE,
                words |-> IF o THEN Append(words, w) ELSE words,
                bare |-> b]
          ELSE IF s[p] = "'"
          THEN shellScan(s, p + 1, TRUE, w, TRUE, words, b)
          ELSE IF s[p] = " "
          THEN shellScan(s, p + 1, FALSE, <<>>, FALSE,
                         IF o THEN Append(words, w) ELSE words,
                         b \cup {" "})
          ELSE IF p = Len(s)
          THEN [closed |-> TRUE, words |-> Append(words, Append(w, "\\")),
                bare |-> b \cup {"\\"}]
          ELSE shellScan(s, p + 2, FALSE, Append(w, s[p + 1]), TRUE, words, b)

ShellWords(line) == shellScan(line, 1, FALSE, <<>>, FALSE, <<>>, {})

\* line is well quoted and evaluates to exactly these words
EvaluatesTo(line, words) ==
  ShellWords(line).closed /\ ShellWords(line).words = words

-----------------------------------------------------------------------------
(* Properties *)

\* C1: the description token add_task puts on the command line is a single
\* quote, the description with every embedded single quote replaced by the
\* four characters quote backslash quote quote, and a single quote; for the
\* description It's a test the token is 'It'\''s a test'.
C1_EscapedToken ==
  (Handled /\ Name = "add_task" /\ Spawned) =>
    /\ HasPrefix(Command, <<"t","a","s","k"," ","a","d","d"," ">>)
    /\ QuotedAt(Command, 10, Args.description)
    /\ Args.description = ItsATest =>
         OccursAt(Command, 10, <<"'","I","t","'","\\","'","'","s"," ","a"," ","t","e","s","t","'">>)

C1_Witness ==
  /\ Handled /\ Name = "add_task" /\ Spawned
  /\ Args.description = ItsATest
  /\ Command = <<"t","a","s","k"," ","a","d","d"," ","'","I","t","'","\\","'","'","s"," ","a"," ","t","e","s","t","'">>

\* C2: evaluating the escaped token by the shell's single-quote rules gives
\* back exactly one word, the original text: the description word of
\* add_task and modify_task, and the text word of annotate_task, append_task
\* and prepend_task.
C2_RoundTrip ==
  (Handled /\ Spawned) =>
    /\ Name = "add_task" =>
         /\ ShellWords(Command).closed
         /\ SubSeq(ShellWords(Command).words, 1, 3)
              = <<<<"t","a","s","k">>, <<"a","d","d">>, Args.description>>
    /\ (Name = "modify_task" /\ Has(Args, "description")) =>
         /\ ShellWords(Command).closed
         /\ SubSeq(ShellWords(Command).words, 1, 4)
              = <<<<"t","a","s","k">>, Args.identifier, <<"m","o","d","i","f","y">>,
                  <<"d","e","s","c","r","i","p","t","i","o","n",":">> \o Args.description>>
    /\ Name = "annotate_task" =>
         EvaluatesTo(Slice(Command, Len(Args.identifier) + 16),
                     <<Args.annotation>>)
    /\ Name \in {"append_task", "prepend_task"} =>
         EvaluatesTo(Slice(Command,
                           Len(Args.identifier)
                             + (IF Name = "append_task" THEN 14 ELSE 15)),
                     <<Args.text>>)

C2_Witness ==
  /\ Handled /\ Name = "append_task" /\ Spawned
  /\ Args.text = <<"'","a","'">>
  /\ Slice(Command, Len(Args.identifier) + 14) = <<"'","'","\\","'","'","a","'","\\","'","'","'">>
  /\ EvaluatesTo(<<"'","'","\\","'","'","a","'","\\","'","'","'">>, <<<<"'","a","'">>>>)

\* C3: wherever a command line carries a free-text field (description of
\* add_task, modify_task and modify_tasks_bulk, annotation of annotate_task,
\* text of append_task and prepend_task), the field stands there in its
\* single-quoted form, as one token, directly after the text that
\* introduces it.
C3_FreeTextEscaped ==
  (Handled /\ Spawned) =>
    /\ Name = "add_task" =>
         HasPrefix(Command, <<"t","a","s","k"," ","a","d","d"," ">>)
         /\ QuotedAt(Command, 10, Args.description)
    /\ (Name = "modify_task" /\ Has(Args, "description")) =>
         /\ OccursAt(Command, 6 + QuotedLen(Args.identifier),
                     <<" ","m","o","d","i","f","y"," ","d","e","s","c","r","i","p","t","i","o","n",":">>)
         /\ QuotedAt(Command, 26 + QuotedLen(Args.identifier),
                     Args.description)
    /\ (Name = "modify_tasks_bulk" /\ Has(Args, "description")) =>
         /\ HasPrefix(Command, <<"y","e","s"," ","|"," ","t","a","s","k"," ">> \o Args.filter
                                 \o <<" ","m","o","d","i","f","y"," ","d","e","s","c","r","i","p","t","i","o","n",":">>)
         /\ QuotedAt(Command, 32 + Len(Args.filter), Args.description)
    /\ Name = "annotate_task" =>
         /\ HasPrefix(Command, <<"t","a","s","k"," ">> \o Args.identifier \o <<" ","a","n","n","o","t","a","t","e"," ">>)
         /\ QuotedAt(Command, Len(Args.identifier) + 16, Args.annotation)
         /\ Len(Command) = Len(Args.identifier) + 15 + QuotedLen(Args.annotation)
    /\ Name = "append_task" =>
         /\ HasPrefix(Command, <<"t","a","s","k"," ">> \o Args.identifier \o <<" ","a","p","p","e","n","d"," ">>)
         /\ QuotedAt(Command, Len(Args.identifier) + 14, Args.text)
         /\ Len(Command) = Len(Args.identifier) + 13 + QuotedLen(Args.text)
    /\ Name = "prepend_task" =>
         /\ HasPrefix(Command, <<"t","a","s","k"," ">> \o Args.identifier \o <<" ","p","r","e","p","e","n","d"," ">>)
         /\ QuotedAt(Command, Len(Args.identifier) + 15, Args.text)
         /\ Len(Command) = Len(Args.identifier) + 14 + QuotedLen(Args.text)

C3_Witness ==
  /\ Handled /\ Name = "annotate_task" /\ Spawned
  /\ Args.identifier = <<"4","2">>
  /\ Args.annotation = <<"a","'",";">>
  /\ Command = <<"t","a","s","k"," ","4","2"," ","a","n","n","o","t","a","t","e"," ","'","a","'","\\","'","'",";","'">>

\* characters that the enums, the project and tag patterns, the date grammar
\* and the fixed text of the commands can put on a command line
InertChars ==
  Lower \cup Upper \cup Digit \cup {" ", ":", ".", "_", "-", "@", "+", "=", ","}

\* C4: on the command line of a request that carries no filter, everything
\* outside single quotes comes from the fixed command text or from a value
\* constrained by an enum, a character-class pattern or the date grammar,
\* so only inert characters stand unquoted.
C4_OnlyFilterRaw ==
  (Handled /\ Spawned /\ ~Has(Args, "filter")) =>
    ShellWords(Command).bare \subseteq InertChars

DateFieldsOf(name) ==
  CASE name = "add_task" -> {"due"}
    [] name \in {"modify_task", "modify_tasks_bulk"} ->
         {"due", "start", "wait", "until", "scheduled"}
    [] OTHER -> {}

FieldText(f) ==
  CASE f = "due" -> <<"d","u","e">>
    [] f = "start" -> <<"s","t","a","r","t">>
    [] f = "wait" -> <<"w","a","i","t">>
    [] f = "until" -> <<"u","n","t","i","l">>
    [] f = "scheduled" -> <<"s","c","h","e","d","u","l","e","d">>

DigitValue(c) == (CHOOSE i \in 1..10 : DigitSeq[i] = c) - 1

\* an ordinal day 1st .. 31st
OrdinalDay(s) ==
  /\ ordinalRegex(s)
  /\ (IF Len(s) = 3 THEN DigitValue(s[1])
      ELSE 10 * DigitValue(s[1]) + DigitValue(s[2])) \in 1..31

\* the six accepted grammars as the specification lists them
AcceptedDate(s) ==
  \/ isoRegex(s) \/ relativeRegex(s) \/ specialDates(s)
  \/ dayNames(s) \/ monthNames(s) \/ OrdinalDay(s)

\* C5: a supplied date field that matches one of the six grammars is on the
\* command line unchanged as field:value; any other supplied text, the empty
\* string and ordinals outside 1st..31st included, makes the request fail
\* before any process is spawned.
C5_DatesValidated ==
  Handled =>
    \A f \in DateFieldsOf(Name) :
      Has(Args, f) =>
        IF AcceptedDate(Args[f])
        THEN Spawned =>
               \E i \in 1..Len(ShellWords(Command).words) :
                 ShellWords(Command).words[i] = FieldText(f) \o <<":">> \o Args[f]
        ELSE ~Spawned /\ thrown # <<>>

\* the schema a tool name is parsed with
SchemaOf(name) ==
  CASE name = "get_next_tasks"       -> listPendingTasksRequest
    [] name = "mark_task_done"       -> markTaskDoneRequest
    [] name = "add_task"             -> addTaskRequest
    [] name = "modify_task"          -> modifyTaskRequest
    [] name = "modify_tasks_bulk"    -> modifyTasksBulkRequest
    [] name = "get_task_info"        -> getTaskInfoRequest
    [] name = "count_tasks"          -> countTasksRequest
    [] name = "list_tasks_filtered"  -> listTasksFilteredRequest
    [] name = "delete_task"          -> deleteTaskRequest
    [] name = "annotate_task"        -> annotateTaskRequest
    [] name = "append_task"          -> appendTaskRequest
    [] name = "prepend_task"         -> prependTaskRequest
    [] name = "duplicate_task"       -> duplicateTaskRequest
    [] name = "undo_last"            -> undoLastRequest
    [] name = "builtin_report"       -> builtinReportRequest
    [] name = "visualization_report" -> visualizationReportRequest
    [] name = "custom_report"        -> customReportRequest

\* the request names a known operation and passes its schema and the check
\* of every date field it supplies
Accepted(name, args) ==
  /\ name \in ToolNames
  /\ issues(SchemaOf(name), args) = {}
  /\ \A f \in DateFieldsOf(name) :
       Truthy(args, f) => parseFlexibleDate(args[f])

\* C6: a handled request has spawned exactly one process if it names a known
\* operation and passes schema and date validation, and none otherwise; in
\* both cases exactly one response has been returned.
C6_OneSpawnOneResponse ==
  Handled =>
    /\ Len(spawned) = (IF Accepted(Name, Args) THEN 1 ELSE 0)
    /\ Len(responses) = 1

C6_Witness ==
  /\ Handled /\ Name = "modify_task"
  /\ Args = [identifier |-> <<"7">>, due |-> <<"e","o","m">>, start |-> <<"n","o","w">>,
             wait |-> <<"+","1","w">>, until |-> <<"2","0","2","5","-","0","1","-","0","1">>,
             scheduled |-> <<"m","o","n","d","a","y">>, stop_task |-> FALSE]
  /\ Len(spawned) = 1 /\ Len(responses) = 1

\* the text of a response
TextOf(response) == response.content[1].text

IsErrorResponse(response) ==
  Has(response, "isError") /\ response.isError = TRUE

\* C7: whatever is thrown while a request is handled (invalid arguments, a
\* bad date, a failed or overflowing process, an unknown tool) comes back as
\* the one response of the request, with text Error: <message> and the
\* error marker; nothing reaches the transport as an exception.
C7_ErrorsBecomeResponses ==
  Handled =>
    /\ faults = <<>>
    /\ Len(responses) = 1
    /\ thrown # <<>> =>
         /\ IsErrorResponse(responses[1])
         /\ TextOf(responses[1]) = <<Lit("Error: ")>> \o thrown[1]
    /\ thrown = <<>> => ~IsErrorResponse(responses[1])

\* a failed process is answered with an error after an earlier request was
\* answered with an error too
C7_Witness ==
  /\ Handled /\ Spawned
  /\ errorsReturned >= 1
  /\ thrown # <<>> /\ thrown[1][1] = Lit("Command failed: ")
  /\ IsErrorResponse(responses[1])

\* C8: a request whose name is not a tool name is answered with the unknown
\* tool error; its arguments were parsed with no schema and no process was
\* spawned.
C8_UnknownTool ==
  (Handled /\ Name \notin ToolNames) =>
    /\ parsed = {}
    /\ spawned = <<>>
    /\ Len(responses) = 1
    /\ IsErrorResponse(responses[1])
    /\ TextOf(responses[1])
         = <<Lit("Error: "), Lit("Unknown tool: "), Lit(Name)>>

C8_Witness ==
  /\ Handled /\ Name = "ADD_TASK"
  /\ Args = [description |-> ItsATest, due |-> <<"t","o","d","a","y">>]
  /\ parsed = {} /\ spawned = <<>>
  /\ IsErrorResponse(responses[1])

\* C9: the process spawned for modify_tasks_bulk runs yes | task <filter>
\* modify ... under /bin/bash, for every filter and every set of
\* modifications; the process of any other operation starts with task and
\* runs under the default shell.
C9_BulkAutoConfirm ==
  (Handled /\ Spawned) =>
    IF Name = "modify_tasks_bulk"
    THEN /\ HasPrefix(Command, <<"y","e","s"," ","|"," ","t","a","s","k"," ">> \o Args.filter \o <<" ","m","o","d","i","f","y"," ">>)
         /\ Has(spawned[1].options, "shell")
         /\ spawned[1].options.shell = "/bin/bash"
    ELSE /\ ~HasPrefix(Command, <<"y","e","s"," ","|">>)
         /\ HasPrefix(Command, <<"t","a","s","k">>)
         /\ ~Has(spawned[1].options, "shell")

C9_Witness ==
  /\ Handled /\ Name = "modify_tasks_bulk" /\ Spawned
  /\ Args = [filter |-> <<"+","u","r","g","e","n","t"," ","o","r"," ","p","r","i","o","r","i","t","y",":","H">>, priority |-> <<"M">>]
  /\ Command = <<"y","e","s"," ","|"," ","t","a","s","k"," ","+","u","r","g","e","n","t"," ","o","r"," ","p","r","i","o","r","i","t","y",":","H"," ","m","o","d","i","f","y"," ","p","r","i","o","r","i","t","y",":","M">>
  /\ spawned[1].options.shell = "/bin/bash"

\* the required text fields the specification says must not be empty
RequiredText(name) ==
  CASE name \in {"mark_task_done", "get_task_info", "delete_task",
                 "annotate_task", "append_task", "prepend_task",
                 "duplicate_task", "modify_task"} -> {"identifier"}
    [] name = "modify_tasks_bulk" -> {"filter"}
    [] name = "add_task" -> {"description"}
    [] OTHER -> {}

\* C10: a request whose required text field is present but empty is
\* rejected as invalid arguments and no process is spawned.
C10_EmptyRequiredRejected ==
  Handled =>
    \A f \in RequiredText(Name) :
      (Has(Args, f) /\ Args[f] = <<>>) =>
        /\ ~Spawned
        /\ thrown # <<>>
        /\ thrown[1][1] = Lit("Invalid arguments for ")


\* the report names the source names anywhere: the two report enums and the
\* names of the comment on listTasksFilteredRequest.report
ReportCatalog ==
  BuiltinReportEnum \cup VisualizationReportEnum \cup {<<"n","e","x","t">>}

\* the enumerated fields of an operation
EnumeratedFields(name) ==
  CASE name \in {"add_task", "modify_task", "modify_tasks_bulk"}
         -> {"priority"}
    [] name = "count_tasks" -> {"priority", "status"}
    [] name = "list_tasks_filtered" -> {"priority", "status", "report"}
    [] name = "builtin_report" -> {"priority", "report"}
    [] name \in {"visualization_report", "custom_report"} -> {"report"}
    [] OTHER -> {}

\* the closed set an enumerated field is held against
ClosedSet(name, f) ==
  CASE f = "priority" -> PriorityEnum
    [] f = "status" -> StatusEnum
    [] f = "report" /\ name = "builtin_report" -> BuiltinReportEnum
    [] f = "report" /\ name = "visualization_report"
         -> VisualizationReportEnum
    [] OTHER -> ReportCatalog

\* C11: a request whose priority, status or report name (of
\* list_tasks_filtered, builtin_report, visualization_report, custom_report)
\* lies outside the field's closed set fails validation: it is answered with
\* an error and no command is built for it.
C11_EnumeratedClosed ==
  Handled =>
    \A f \in EnumeratedFields(Name) \cap DOMAIN Args :
      Args[f] \notin ClosedSet(Name, f) =>
        /\ spawned = <<>>
        /\ thrown # <<>>
        /\ IsErrorResponse(responses[1])

\* the tag lists an operation takes
TagFieldsOf(name) ==
  CASE name \in {"modify_task", "modify_tasks_bulk"} -> {"tags", "tags_remove"}
    [] name \in {"get_next_tasks", "add_task", "count_tasks",
                 "list_tasks_filtered", "builtin_report",
                 "visualization_report"} -> {"tags"}
    [] OTHER -> {}

\* the fields the validation error of the request names
RejectedFields ==
  IF thrown # <<>> /\ thrown[1][1] = Lit("Invalid arguments for ")
  THEN IF "zod" \in DOMAIN thrown[1][4]
       THEN thrown[1][4].zod ELSE thrown[1][4].details
  ELSE {}

\* non-empty text over @, letters of both cases, digits, _ and -
MixedCaseTag(s) ==
  s # <<>> /\ \A i \in 1..Len(s) :
                s[i] \in Lower \cup Upper \cup Digit \cup {"@", "_", "-"}

\* non-empty text over @, lower-case letters, digits, _ and -
LowerCaseTag(s) ==
  s # <<>> /\ \A i \in 1..Len(s) : s[i] \in Lower \cup Digit \cup {"@", "_", "-"}

\* the sign a tag of the list is written with
TagSign(f) == IF f = "tags" THEN "+" ELSE "-"

\* every tag list of the request is rejected exactly when one of its tags
\* does not satisfy Pattern, and the tags of a request that went on to a
\* command stand on the command line as they came
TagsHeldTo(Pattern(_)) ==
  Handled =>
    \A f \in TagFieldsOf(Name) \cap DOMAIN Args :
      /\ f \in RejectedFields <=>
           \E i \in 1..Len(Args[f]) : ~Pattern(Args[f][i])
      /\ Spawned =>
           \A i \in 1..Len(Args[f]) :
             \E w \in 1..Len(ShellWords(Command).words) :
               ShellWords(Command).words[w] = <<TagSign(f)>> \o Args[f][i]

\* C12 as stated: a tag is accepted if and only if it is non-empty text
\* matching [@A-Za-z0-9_-]+, letters of both cases allowed; any other tag
\* fails validation and is never rewritten into an accepted one.
C12_TagsMixedCase == TagsHeldTo(MixedCaseTag)

\* C12 amended: a tag is accepted if and only if it is non-empty text
\* matching [@a-z0-9_-]+, lower-case letters only; any other tag, one with an
\* upper-case letter included, fails validation and is never rewritten into
\* an accepted one.
C12_TagsLowerCase == TagsHeldTo(LowerCaseTag)

\* a tag with an upper-case letter is rejected, by name of its field
C12_Witness ==
  /\ Handled /\ Name = "modify_tasks_bulk"
  /\ Has(Args, "tags_remove") /\ Args.tags_remove = <<<<"U","r","g","e","n","t">>>>
  /\ Has(Args, "tags") /\ Args.tags = <<<<"@","h","o","m","e">>, <<"n","e","x","t","_","1">>>>
  /\ RejectedFields = {"tags_remove"}
  /\ spawned = <<>>

\* the names the tool listing advertises
AdvertisedNames == {ListTools.tools[i].name : i \in 1..Len(ListTools.tools)}

\* the request was answered as one for an unknown tool
AnsweredUnknown ==
  thrown # <<>> /\ thrown[1][1] = Lit("Unknown tool: ")

\* the listing returned has n tools with n distinct names, and the switch
\* has a case for a name exactly when the listing advertises it
CatalogClosed(n) ==
  /\ pc = "listed" =>
       /\ Len(responses[1].tools) = n
       /\ Cardinality({responses[1].tools[i].name :
                         i \in 1..Len(responses[1].tools)}) = n
  /\ Handled =>
       /\ AnsweredUnknown <=> Name \notin AdvertisedNames
       /\ Cardinality(AdvertisedNames) = n

ModifierWords ==
  LET words == ShellWords(Command).words
      at == {i \in 1..Len(words) : words[i] = <<"m","o","d","i","f","y">>}
      first == CHOOSE i \in at : \A j \in at : i <= j
  IN IF at = {} THEN <<>> ELSE SubSeq(words, first + 1, Len(words))

\* the list given for field f, empty when the field is absent
ListOf(f) == IF Has(Args, f) THEN Args[f] ELSE <<>>

\* one +tag per tag to add, then one -tag per tag to remove
SignedTags(adds, removes) ==
  [i \in 1..(Len(adds) + Len(removes)) |->
     IF i <= Len(adds) THEN <<"+">> \o adds[i]
     ELSE <<"-">> \o removes[i - Len(adds)]]

\* C14: in the modifiers built by modify_task and modify_tasks_bulk, the
\* tokens that start with + or - are exactly one +tag per tag to add, in list
\* order, followed by one -tag per tag to remove, for lists of every size,
\* empty and absent ones included.
C14_TagOrder ==
  (Handled /\ Name \in {"modify_task", "modify_tasks_bulk"} /\ Spawned) =>
    SelectSeq(ModifierWords, LAMBDA w : w # <<>> /\ w[1] \in {"+", "-"})
      = SignedTags(ListOf("tags"), ListOf("tags_remove"))

C14_Witness ==
  /\ Handled /\ Name = "modify_tasks_bulk" /\ Spawned
  /\ Args = [filter |-> <<"p","r","o","j","e","c","t",":","W","o","r","k">>, description |-> <<"a">>,
             due |-> <<"e","o","m">>, depends |-> <<<<"1">>, <<"2">>>>,
             tags |-> <<<<"@","h","o","m","e">>, <<"n","e","x","t","_","1">>>>,
             tags_remove |-> <<<<"-","x">>, <<"o","k">>>>]
  /\ Command = <<"y","e","s"," ","|"," ","t","a","s","k"," ","p","r","o","j","e","c","t",":","W","o","r","k"," ","m","o","d","i","f","y"," ","d","e","s","c","r","i","p","t","i","o","n",":","'","a","'"," ","d","u","e",":","e","o","m"," ","d","e","p","e","n","d","s",":","1",",","2"," ","+","@","h","o","m","e"," ","+","n","e","x","t","_","1"," ","-","-","x"," ","-","o","k">>

\* one empty-valued token per field to clear
EmptyValued(fields) == [i \in 1..Len(fields) |-> Append(fields[i], ":")]

\* C15: modify_task with an identifier, a clear_fields list and no other
\* modification field builds task <identifier> modify followed by exactly the
\* tokens f1: .. fn: in list order; the list due, priority gives exactly
\* due: priority:.
C15_ClearFields ==
  (Handled /\ Name = "modify_task" /\ Spawned
     /\ DOMAIN Args = {"identifier", "clear_fields"}) =>
    /\ ShellWords(Command).closed
    /\ ShellWords(Command).words
         = <<<<"t","a","s","k">>, Args.identifier, <<"m","o","d","i","f","y">>>>
             \o EmptyValued(Args.clear_fields)
    /\ Args.clear_fields = <<<<"d","u","e">>, <<"p","r","i","o","r","i","t","y">>>> =>
         Command = <<"t","a","s","k"," ","'","7","'"," ","m","o","d","i","f","y"," ","d","u","e",":"," ","p","r","i","o","r","i","t","y",":">>

C15_Witness ==
  /\ Handled /\ Name = "modify_task" /\ Spawned
  /\ Args = [identifier |-> <<"7">>, clear_fields |-> <<<<"d","u","e">>, <<"p","r","i","o","r","i","t","y">>>>]
  /\ ModifierWords = <<<<"d","u","e",":">>, <<"p","r","i","o","r","i","t","y",":">>>>

\* the upper-case letter of a lower-case letter, any other character itself
Capital(c) ==
  IF c \in Lower
  THEN UpperSeq[CHOOSE i \in 1..Len(LowerSeq) : LowerSeq[i] = c]
  ELSE c

\* a column name with its first character upper-cased and the rest unchanged
TitleCased(col) ==
  [j \in 1..Len(col) |-> IF j = 1 THEN Capital(col[1]) ELSE col[j]]

\* task, the filter when one is given, and the report name
ReportHead ==
  <<"t","a","s","k"," ">> \o (IF Has(Args, "filter") /\ Args.filter # <<>>
               THEN Args.filter \o <<" ">> ELSE <<>>)
           \o Args.report

\* C16: custom_report with a non-empty columns list c1..cn on report R puts,
\* right after the report name, rc.report.R.columns=c1,..,cn and then
\* rc.report.R.labels=L1,..,Ln, Li being ci with its first character
\* upper-cased (id, project give id,project and Id,Project); with the columns
\* absent or empty the command line ends with the report name.
C16_ColumnOverrides ==
  (Handled /\ Name = "custom_report" /\ Spawned) =>
    /\ IF ListOf("columns") # <<>>
       THEN Command =
              ReportHead
                \o <<" ","r","c",".","r","e","p","o","r","t",".">> \o Args.report \o <<".","c","o","l","u","m","n","s","=">>
                \o join(Args.columns, <<",">>)
                \o <<" ","r","c",".","r","e","p","o","r","t",".">> \o Args.report \o <<".","l","a","b","e","l","s","=">>
                \o join([i \in 1..Len(Args.columns) |->
                           TitleCased(Args.columns[i])], <<",">>)
       ELSE Command = ReportHead
    /\ (ListOf("columns") = <<<<"i","d">>, <<"p","r","o","j","e","c","t">>>> /\ Args.report = <<"n","e","x","t">>) =>
         /\ OccursAt(Command, Len(ReportHead) + 1,
                     <<" ","r","c",".","r","e","p","o","r","t",".","n","e","x","t",".","c","o","l","u","m","n","s","=","i","d",",","p","r","o","j","e","c","t">>)
         /\ OccursAt(Command, Len(ReportHead) + 35,
                     <<" ","r","c",".","r","e","p","o","r","t",".","n","e","x","t",".","l","a","b","e","l","s","=","I","d",",","P","r","o","j","e","c","t">>)
         /\ Len(Command) = Len(ReportHead) + 67

C16_Witness ==
  /\ Handled /\ Name = "custom_report" /\ Spawned
  /\ Has(Args, "columns") /\ Args.columns = <<<<"i","d">>, <<"p","r","o","j","e","c","t">>>>
  /\ Args.report = <<"n","e","x","t">> /\ Has(Args, "filter")
  /\ Command = <<"t","a","s","k"," ","p","r","o","j","e","c","t",":","W","o","r","k"," ","n","e","x","t"," ","r","c",".","r","e","p","o","r","t",".","n","e","x","t",".","c","o","l","u","m","n","s","=","i","d",",","p","r","o","j","e","c","t"," ","r","c",".","r","e","p","o","r","t",".","n","e","x","t",".","l","a","b","e","l","s","=","I","d",",","P","r","o","j","e","c","t">>

\* C17: requests are handled one at a time: at most one handler call is
\* inside execSync, with its process running, at any moment, and no handler
\* is called (nothing is validated, built or spawned) while a process runs.
C17_OneAtATime ==
  /\ [](Cardinality(active) <= 1)
  /\ [][Len(inbox') < Len(inbox) => active = {}]_vars

\* a process runs for a mutating request while an earlier request has been
\* answered and a later mutating request waits
C17_Witness ==
  /\ Cardinality(active) = 1
  /\ \E h \in active : h.request.name = "modify_task"
  /\ answered # <<>>
  /\ inbox # <<>> /\ Head(inbox).name = "modify_tasks_bulk"

\* the command lines a request of the event-loop specification gives when it
\* is the first request of a new server: none when it is rejected
FirstCallCommands(req) ==
  CASE req.name = "modify_task" /\ Has(req.arguments, "identifier")
         -> <<<<"t","a","s","k"," ","'","7","'"," ","m","o","d","i","f","y"," ","p","r","i","o","r","i","t","y",":","H"," ","+","u","r","g","e","n","t">>>>
    [] req.name = "modify_tasks_bulk"
         -> <<<<"y","e","s"," ","|"," ","t","a","s","k"," ","p","r","o","j","e","c","t",":","W","o","r","k"," ","m","o","d","i","f","y"," ","d","u","e",":">>>>
    [] req.name = "mark_task_done" -> <<<<"t","a","s","k"," ","1"," ","d","o","n","e">>>>
    [] OTHER -> <<>>

\* C18: whatever requests were handled before (accepted, rejected or failed),
\* a request is rejected exactly when it would be rejected as the first
\* request of a new server, and the command line built for it is the one it
\* would get there: nothing of an earlier request is seen by a later one.
C18_NoStateBetweenCalls ==
  /\ \A i \in 1..Len(answered) :
       /\ answered[i].commands = FirstCallCommands(answered[i].request)
       /\ answered[i].commands = <<>> => answered[i].isError
  /\ \A h \in active : <<h.case.command>> = FirstCallCommands(h.request)

\* a rejected request, then a modification whose process failed, then a
\* second modification that gets its own command line
C18_Witness ==
  /\ Len(answered) = 3
  /\ answered[1].commands = <<>> /\ answered[1].isError
  /\ answered[2].request.name = "modify_task"
  /\ answered[2].commands # <<>> /\ answered[2].isError
  /\ answered[3].request.name = "modify_tasks_bulk"
  /\ answered[3].commands = <<<<"y","e","s"," ","|"," ","t","a","s","k"," ","p","r","o","j","e","c","t",":","W","o","r","k"," ","m","o","d","i","f","y"," ","d","u","e",":">>>>
  /\ ~answered[3].isError
====
